---- MODULE Spec2Model ----
(***************************************************************************)
(* A model of Cpp-stream: the generators of src/src/stream_utils.h (the    *)
(* pull-based producers and their copy and move constructors) and the      *)
(* Stream class of src/src/stream.h (construction, the combinators skip,    *)
(* get, filter, map, group and the terminal operations print_to, nth,      *)
(* reduce, to_vector, sum).                                                *)
(*                                                                         *)
(* A generator is a record whose fields are the members of the C++ class;  *)
(* a combinator generator holds its parent generator by value in           *)
(* parent_gen_.  std::optional<T> is a sequence of length 0 (std::nullopt) *)
(* or 1.  A std::vector is a record [id, data]: id names its heap buffer   *)
(* (0: no buffer), data is what the buffer holds.  An iterator of a        *)
(* PackGenerator is [buf, base]: the buffer it points into and the offset  *)
(* of its base from the start of that buffer.                              *)
(***************************************************************************)
EXTENDS Integers, Sequences, FiniteSets, TLC

\* Longest collection a stream is constructed from.
MaxLen == 3
\* Largest amount given to skip, get, group and nth.
MaxArg == 2
\* Most combinators applied to one source.
MaxChain == 2
\* Most cells outside a vector's buffer that can be read before the read faults.
MaxMapped == 2

\* The element values of the collections.
Values == {1, 2}
\* What a read outside a buffer may find there.
JunkValues == {0, 33}

RECURSIVE SeqsUpTo(_, _)
SeqsUpTo(S, n) ==
    IF n = 0 THEN {<<>>}
    ELSE LET shorter == SeqsUpTo(S, n - 1)
         IN  shorter \cup {Append(q, x) : q \in {t \in shorter : Len(t) = n - 1}, x \in S}

\* std::nullopt and an engaged std::optional.
nullopt == <<>>
Some(v) == <<v>>
has_value(opt) == Len(opt) = 1
value(opt) == opt[1]

(***************************************************************************)
(* Callables, predicates and transforms the client passes in.              *)
(***************************************************************************)
\* "one": [](){ return 1; }     "cycle": [n = 0]() mutable { n = n % 2 + 1; return n; }
Callables == {"one", "cycle"}
Call(vg) ==
    IF vg.fn = "one" THEN [vg |-> [vg EXCEPT !.calls = @ + 1], v |-> 1]
    ELSE [vg |-> [vg EXCEPT !.n = (vg.n % 2) + 1, !.calls = @ + 1],
          v |-> (vg.n % 2) + 1]

\* "odd": [](int val){ return val % 2; }    "even": [](int val){ return val % 2 == 0; }
Predicates == {"odd", "even"}
Test(predicate, v) == IF predicate = "odd" THEN v % 2 = 1 ELSE v % 2 = 0

\* "twice": [](int val){ return 2 * val; }
Transforms == {"twice"}
Apply(transform, v) == 2 * v

\* A callable of the client that counts the calls made to it; a copy of it
\* carries the count along.
Functor(fn) == [fn |-> fn, calls |-> 0]
Called(f) == [f EXCEPT !.calls = @ + 1]

(***************************************************************************)
(* Memory.  E.live is the set of vectors (records [id, data]) alive while  *)
(* a generator is pulled; E.junk is what the cells outside a buffer hold,  *)
(* nearest first, and a read past them faults.                             *)
(***************************************************************************)
JunkSeqs == SeqsUpTo(JunkValues, MaxMapped)

NoVector == [id |-> 0, data |-> <<>>]

\* *it for a reverse iterator: the element before its base.
Deref(it, E) ==
    LET owners == {c \in E.live : c.id = it.buf /\ c.id # 0}
        data == IF owners = {} THEN <<>> ELSE (CHOOSE c \in owners : TRUE).data
        off == IF it.base < 1 THEN 1 - it.base ELSE it.base - Len(data)
    IN  IF owners # {} /\ it.base \in 1..Len(data)
        THEN [st |-> "ok", v |-> data[it.base]]
        ELSE IF off \in 1..Len(E.junk)
        THEN [st |-> "ok", v |-> E.junk[off]]
        ELSE [st |-> "fault", v |-> 0]

\* Whether *it reads an element of the vector `own`.
InBounds(it, own) == it.buf = own.id /\ own.id # 0 /\ it.base \in 1..Len(own.data)

(***************************************************************************)
(* Generators: construction.                                               *)
(***************************************************************************)
InfiniteGenerator(fn) ==
    [kind |-> "Infinite", value_generator_ |-> [fn |-> fn, n |-> 0, calls |-> 0]]

\* PackGenerator(): an empty vector and value-initialised iterators.
PackGenerator(id) ==
    [kind |-> "Pack", container_ |-> [id |-> id, data |-> <<>>],
     current_ |-> [buf |-> 0, base |-> 0], end_ |-> [buf |-> 0, base |-> 0]]

\* push_back: append, then current_ = crbegin(), end_ = crend().
push_back(g, v) ==
    LET c == [g.container_ EXCEPT !.data = Append(@, v)]
    IN  [g EXCEPT !.container_ = c,
                  !.current_ = [buf |-> c.id, base |-> Len(c.data)],
                  !.end_ = [buf |-> c.id, base |-> 0]]

\* ContainerGenerator(const Container &) and (Container &&): own the elements,
\* current_ = cbegin(), end_ = cend().
ContainerGenerator(container) ==
    [kind |-> "Container", container_ |-> container,
     current_ |-> 1, end_ |-> Len(container) + 1]

IsSource(g) == g.kind \in {"Infinite", "Pack", "Container"}

(***************************************************************************)
(* Copy and move constructors.                                             *)
(***************************************************************************)
\* PackGenerator(const PackGenerator &) = default: the vector is copied into a
\* buffer of its own (nb), the two iterators are copied as they are.
PackCopy(other, nb) ==
    [other EXCEPT !.container_ = [id |-> nb, data |-> other.container_.data]]

\* PackGenerator(PackGenerator &&): the vector takes other's buffer;
\* current_(container_.cbegin()) and end_(container_.cend()) make the reverse
\* iterators whose bases are the begin and the end of the buffer.
PackMove(other) ==
    [other EXCEPT !.current_ = [buf |-> other.container_.id, base |-> 0],
                  !.end_ = [buf |-> other.container_.id,
                            base |-> Len(other.container_.data)]]

\* ContainerGenerator(const ContainerGenerator &).
ContainerCopy(other) ==
    [other EXCEPT !.current_ = 1, !.end_ = Len(other.container_) + 1]

\* ContainerGenerator(ContainerGenerator &&).
ContainerMove(other) ==
    [other EXCEPT !.current_ = 1, !.end_ = Len(other.container_) + 1]

\* The copy constructor of every generator; the combinators' are defaulted
\* (memberwise), so the flag and the counter are copied as they are.
RECURSIVE CopyGen(_, _)
CopyGen(other, nb) ==
    CASE other.kind = "Infinite" -> other
      [] other.kind = "Pack" -> PackCopy(other, nb)
      [] other.kind = "Container" -> ContainerCopy(other)
      [] OTHER -> [other EXCEPT !.parent_gen_ = CopyGen(other.parent_gen_, nb)]

\* The move constructor of every generator: the combinators' move the parent
\* and copy their other members.
RECURSIVE MoveGen(_)
MoveGen(other) ==
    CASE other.kind = "Infinite" -> other
      [] other.kind = "Pack" -> PackMove(other)
      [] other.kind = "Container" -> ContainerMove(other)
      [] OTHER -> [other EXCEPT !.parent_gen_ = MoveGen(other.parent_gen_)]

\* The constructors of the combinator generators: each copy-constructs
\* parent_gen_ from the generator it is given (nb: the buffer of the copy).
SkipGenerator(parent_gen, amount, nb) ==
    [kind |-> "Skip", parent_gen_ |-> CopyGen(parent_gen, nb),
     amount_to_skip_ |-> amount, skipped_ |-> FALSE]

GetGenerator(parent_gen, amount, nb) ==
    [kind |-> "Get", parent_gen_ |-> CopyGen(parent_gen, nb),
     amount_to_get_ |-> amount, amount_got_ |-> 0]

FilterGenerator(parent_gen, predicate, nb) ==
    [kind |-> "Filter", parent_gen_ |-> CopyGen(parent_gen, nb),
     predicate_ |-> predicate]

GroupGenerator(parent_gen, group_size, nb) ==
    [kind |-> "Group", parent_gen_ |-> CopyGen(parent_gen, nb),
     group_size_ |-> group_size]

MapGenerator(parent_gen, transform, nb) ==
    [kind |-> "Map", parent_gen_ |-> CopyGen(parent_gen, nb),
     transform_ |-> transform]


\* The source generator under the combinators.
RECURSIVE SourceOf(_)
SourceOf(g) == IF IsSource(g) THEN g ELSE SourceOf(g.parent_gen_)

\* The vectors a generator owns.
Vectors(g) ==
    IF SourceOf(g).kind = "Pack" THEN {SourceOf(g).container_} ELSE {}

\* A generator with the call counts of its callables cleared: what it yields
\* does not depend on them.
RECURSIVE Uncounted(_)
Uncounted(g) ==
    CASE g.kind = "Infinite" -> [g EXCEPT !.value_generator_.calls = 0]
      [] IsSource(g) -> g
      [] g.kind = "Filter" ->
            [g EXCEPT !.predicate_.calls = 0, !.parent_gen_ = Uncounted(@)]
      [] g.kind = "Map" ->
            [g EXCEPT !.transform_.calls = 0, !.parent_gen_ = Uncounted(@)]
      [] OTHER -> [g EXCEPT !.parent_gen_ = Uncounted(@)]

\* The buffers the iterators of a generator point into, alive or not.
Pointees(g) ==
    IF SourceOf(g).kind = "Pack"
    THEN {[id |-> SourceOf(g).current_.buf, data |-> <<>>]}
    ELSE {}

(***************************************************************************)
(* operator(): one pull of a generator.  The result is [gen, opt, st]: the *)
(* generator after the pull, the optional it returned and st, which is     *)
(* "ok" when the pull returned, "fault" when a read outside every mapped   *)
(* cell ended the process and "hang" when the pull never returns.          *)
(***************************************************************************)
Returned(g, opt) == [gen |-> g, opt |-> opt, st |-> "ok"]
Aborted(g, st) == [gen |-> g, opt |-> nullopt, st |-> st]

\* InfiniteGenerator::operator().
InfinitePull(g) ==
    LET c == Call(g.value_generator_)
    IN  Returned([g EXCEPT !.value_generator_ = c.vg], Some(c.v))

\* PackGenerator::operator(): *(current_++) on reverse iterators.
PackPull(g, E) ==
    IF g.current_ = g.end_ THEN Returned(g, nullopt)
    ELSE LET d == Deref(g.current_, E)
         IN  IF d.st # "ok" THEN Aborted(g, d.st)
             ELSE Returned([g EXCEPT !.current_.base = @ - 1], Some(d.v))

\* ContainerPull that rewinds the cursor when it reports the end.
ContainerPullRewinds(g) ==
    IF g.current_ = g.end_ THEN Returned([g EXCEPT !.current_ = 1], nullopt)
    ELSE Returned([g EXCEPT !.current_ = @ + 1], Some(g.container_[g.current_]))

\* ContainerGenerator::operator().
ContainerPull(g) ==
    IF g.current_ = g.end_ THEN Returned(g, nullopt)
    ELSE Returned([g EXCEPT !.current_ = @ + 1], Some(g.container_[g.current_]))

RECURSIVE Pull(_, _)
RECURSIVE SkipLoop(_, _, _, _)
RECURSIVE FilterLoop(_, _, _, _)
RECURSIVE GroupLoop(_, _, _, _, _)

\* while (i < amount_to_skip_ && (opt = parent_gen_())) ++i;
SkipLoop(parent, i, amount, E) ==
    IF i < amount
    THEN LET r == Pull(parent, E)
         IN  IF r.st = "ok" /\ has_value(r.opt)
             THEN SkipLoop(r.gen, i + 1, amount, E)
             ELSE [gen |-> r.gen, i |-> i, st |-> r.st]
    ELSE [gen |-> parent, i |-> i, st |-> "ok"]

\* SkipPull that never sets skipped_: every pull skips again.
SkipPullEveryTime(g, E) ==
    LET l == SkipLoop(g.parent_gen_, 0, g.amount_to_skip_, E)
        after == [g EXCEPT !.parent_gen_ = l.gen]
    IN  IF l.st # "ok" THEN Aborted(after, l.st)
        ELSE IF l.i < g.amount_to_skip_ THEN Returned(after, nullopt)
        ELSE LET r == Pull(l.gen, E)
             IN  [r EXCEPT !.gen = [after EXCEPT !.parent_gen_ = r.gen]]

\* SkipGenerator::operator().
SkipPull(g, E) ==
    IF ~g.skipped_
    THEN LET l == SkipLoop(g.parent_gen_, 0, g.amount_to_skip_, E)
             after == [g EXCEPT !.parent_gen_ = l.gen, !.skipped_ = TRUE]
         IN  IF l.st # "ok" THEN Aborted(after, l.st)
             ELSE IF l.i < g.amount_to_skip_ THEN Returned(after, nullopt)
             ELSE LET r == Pull(l.gen, E)
                  IN  [r EXCEPT !.gen = [after EXCEPT !.parent_gen_ = r.gen]]
    ELSE LET r == Pull(g.parent_gen_, E)
         IN  [r EXCEPT !.gen = [g EXCEPT !.parent_gen_ = r.gen]]

\* GetPull with > for >=: one pull more than amount_to_get_.
GetPullOneMore(g, E) ==
    IF g.amount_got_ > g.amount_to_get_ THEN Returned(g, nullopt)
    ELSE LET r == Pull(g.parent_gen_, E)
         IN  [r EXCEPT !.gen = [g EXCEPT !.amount_got_ = @ + 1,
                                         !.parent_gen_ = r.gen]]

\* GetPull that counts the values got, not the pulls made.
GetPullCountsValues(g, E) ==
    IF g.amount_got_ >= g.amount_to_get_ THEN Returned(g, nullopt)
    ELSE LET r == Pull(g.parent_gen_, E)
         IN  [r EXCEPT !.gen = [g EXCEPT !.amount_got_ =
                                             IF has_value(r.opt) THEN @ + 1 ELSE @,
                                         !.parent_gen_ = r.gen]]

\* GetGenerator::operator().
GetPull(g, E) ==
    IF g.amount_got_ >= g.amount_to_get_ THEN Returned(g, nullopt)
    ELSE LET r == Pull(g.parent_gen_, E)
         IN  [r EXCEPT !.gen = [g EXCEPT !.amount_got_ = @ + 1,
                                         !.parent_gen_ = r.gen]]

\* while ((opt = parent_gen_()) && !predicate_(opt.value()));
\* `seen` holds the states the parent was pulled in since the loop began: a
\* parent that is back in one of them after a rejected value yields the same
\* rejected values again, so the loop has no exit.
FilterLoop(parent, predicate, seen, E) ==
    LET r == Pull(parent, E)
        p == Called(predicate)
    IN  IF r.st # "ok" \/ ~has_value(r.opt)
        THEN [gen |-> r.gen, opt |-> r.opt, st |-> r.st, predicate |-> predicate]
        ELSE IF Test(predicate.fn, value(r.opt))
        THEN [gen |-> r.gen, opt |-> r.opt, st |-> r.st, predicate |-> p]
        ELSE IF Uncounted(r.gen) \in seen
        THEN [gen |-> r.gen, opt |-> nullopt, st |-> "hang", predicate |-> p]
        ELSE FilterLoop(r.gen, p, seen \cup {Uncounted(r.gen)}, E)

\* FilterGenerator::operator().
FilterPull(g, E) ==
    LET l == FilterLoop(g.parent_gen_, g.predicate_, {Uncounted(g.parent_gen_)}, E)
    IN  [gen |-> [g EXCEPT !.parent_gen_ = l.gen, !.predicate_ = l.predicate],
         opt |-> l.opt, st |-> l.st]

\* do { group.push_back(opt.value()); ++i; } while (i < group_size_ && (opt = parent_gen_()));
\* entered after the push_back and the ++i.
GroupLoop(parent, grp, i, group_size, E) ==
    IF i < group_size
    THEN LET r == Pull(parent, E)
         IN  IF r.st = "ok" /\ has_value(r.opt)
             THEN GroupLoop(r.gen, Append(grp, value(r.opt)), i + 1, group_size, E)
             ELSE [gen |-> r.gen, group |-> grp, st |-> r.st]
    ELSE [gen |-> parent, group |-> grp, st |-> "ok"]

\* GroupGenerator::operator().
GroupPull(g, E) ==
    LET r == Pull(g.parent_gen_, E)
    IN  IF r.st # "ok" \/ ~has_value(r.opt)
        THEN [r EXCEPT !.gen = [g EXCEPT !.parent_gen_ = r.gen]]
        ELSE LET l == GroupLoop(r.gen, <<value(r.opt)>>, 1, g.group_size_, E)
                 after == [g EXCEPT !.parent_gen_ = l.gen]
             IN  IF l.st # "ok" THEN Aborted(after, l.st)
                 ELSE Returned(after, Some(l.group))

\* MapGenerator::operator().
MapPull(g, E) ==
    LET r == Pull(g.parent_gen_, E)
        after == [g EXCEPT !.parent_gen_ = r.gen]
    IN  IF r.st # "ok" \/ ~has_value(r.opt) THEN [r EXCEPT !.gen = after]
        ELSE Returned([after EXCEPT !.transform_ = Called(@)],
                      Some(Apply(g.transform_.fn, value(r.opt))))

Pull(g, E) ==
    CASE g.kind = "Infinite" -> InfinitePull(g)
      [] g.kind = "Pack" -> PackPull(g, E)
      [] g.kind = "Container" -> ContainerPull(g)
      [] g.kind = "Skip" -> SkipPull(g, E)
      [] g.kind = "Get" -> GetPull(g, E)
      [] g.kind = "Filter" -> FilterPull(g, E)
      [] g.kind = "Group" -> GroupPull(g, E)
      [] g.kind = "Map" -> MapPull(g, E)

(***************************************************************************)
(* Stream<StreamGenerator, Tag>.  A stream is [generator_, Tag, depth]:    *)
(* Tag is the template argument, depth tells value_type (0: int, d + 1: a  *)
(* std::vector of the value_type of depth d).                              *)
(***************************************************************************)
\* The smallest buffer id no live vector uses.
FreshId(live) ==
    CHOOSE i \in 1..(Cardinality(live) + 1) :
        /\ \A c \in live : c.id # i
        /\ \A j \in 1..(i - 1) : \E c \in live : c.id = j

\* Stream(ValueGenerator && generator), deduced Infinite.
StreamOfCallable(fn) ==
    [generator_ |-> InfiniteGenerator(fn), Tag |-> "Infinite", depth |-> 0]

\* Stream(const Container &), Stream(Container &&), deduced Finite.
StreamOfContainer(container) ==
    [generator_ |-> ContainerGenerator(container), Tag |-> "Finite", depth |-> 0]

\* Stream(Iterator first, Iterator last): std::vector<value_type>(first, last)
\* over the positions first..last-1 of the container the iterators point into.
StreamOfRange(container, first, last) ==
    [generator_ |-> ContainerGenerator(SubSeq(container, first, last - 1)),
     Tag |-> "Finite", depth |-> 0]

\* Stream(std::initializer_list<T> il): std::vector<value_type>(il).
StreamOfInitializerList(il) ==
    [generator_ |-> ContainerGenerator(il), Tag |-> "Finite", depth |-> 0]

\* PackOf with the arguments pushed in the order they are written.
RECURSIVE PackOfInOrder(_, _)
PackOfInOrder(args, id) ==
    IF Len(args) = 1 THEN push_back(PackGenerator(id), args[1])
    ELSE push_back(PackOfInOrder(SubSeq(args, 1, Len(args) - 1), id), args[Len(args)])

\* Stream(T first, Args... args) : Stream(args...) { generator_.push_back(first); }
\* and Stream(T first) { generator_.push_back(first); }
RECURSIVE PackOf(_, _)
PackOf(args, id) ==
    IF Len(args) = 1 THEN push_back(PackGenerator(id), args[1])
    ELSE push_back(PackOf(Tail(args), id), Head(args))

StreamOfPack(args) ==
    [generator_ |-> PackOf(args, 1), Tag |-> "Finite", depth |-> 0]

\* Stream(Stream && other): generator_(std::move(other.generator_)).
StreamMove(other) == [other EXCEPT !.generator_ = MoveGen(other.generator_)]

\* Stream(const Stream & other) = default: generator_(other.generator_).
StreamCopy(other, nb) == [other EXCEPT !.generator_ = CopyGen(other.generator_, nb)]

\* is_finite().
is_finite(stream) == stream.Tag = "Finite"

\* The private Stream(StreamGen && generator, StreamTag): generator_(std::move(generator)).
StreamOfGenerator(generator, tag, depth) ==
    [generator_ |-> MoveGen(generator), Tag |-> tag, depth |-> depth]

\* operator|(skip &&).
Skip(stream, amount) ==
    StreamOfGenerator(
        SkipGenerator(stream.generator_, amount, FreshId(Vectors(stream.generator_))),
        stream.Tag, stream.depth)

\* Get with the tag of the stream it is applied to.
GetKeepsTag(stream, amount) ==
    StreamOfGenerator(
        GetGenerator(stream.generator_, amount, FreshId(Vectors(stream.generator_))),
        stream.Tag, stream.depth)

\* operator|(get &&).
Get(stream, amount) ==
    StreamOfGenerator(
        GetGenerator(stream.generator_, amount, FreshId(Vectors(stream.generator_))),
        "Finite", stream.depth)

\* operator|(filter<Predicate> &&).
Filter(stream, predicate) ==
    StreamOfGenerator(
        FilterGenerator(stream.generator_, predicate, FreshId(Vectors(stream.generator_))),
        stream.Tag, stream.depth)

\* operator|(group &&).
Group(stream, group_size) ==
    StreamOfGenerator(
        GroupGenerator(stream.generator_, group_size, FreshId(Vectors(stream.generator_))),
        stream.Tag, stream.depth + 1)

\* operator|(map<Transform> &&).
Map(stream, transform) ==
    StreamOfGenerator(
        MapGenerator(stream.generator_, transform, FreshId(Vectors(stream.generator_))),
        stream.Tag, stream.depth)

(***************************************************************************)
(* Terminal operations.  Each works on gen, a copy of generator_, and ends *)
(* as [status, value, gen, props]: "returned" with <<the value>>, "threw"  *)
(* (an IllegalStreamOperation), "crashed" (a faulting read) or "hangs";    *)
(* gen and props are the local generator and the operation_props as the   *)
(* operation left them.                                                    *)
(***************************************************************************)
NoGen == [kind |-> "None"]
NoProps == [identity |-> Functor("none"), accumulator |-> Functor("none")]

ReturnedValue(v, gen, props) ==
    [status |-> "returned", value |-> <<v>>, gen |-> gen, props |-> props]
Threw(gen, props) ==
    [status |-> "threw", value |-> <<>>, gen |-> gen, props |-> props]
Stopped(st) ==
    [status |-> IF st = "fault" THEN "crashed" ELSE "hangs", value |-> <<>>,
     gen |-> NoGen, props |-> NoProps]

\* StreamGenerator gen(generator_);
GenOf(stream) == CopyGen(stream.generator_, FreshId(Vectors(stream.generator_)))

\* What os << n writes for an int n >= 0.
Digits == <<"0", "1", "2", "3", "4", "5", "6", "7", "8", "9">>
RECURSIVE Decimal(_)
Decimal(n) ==
    IF n < 10 THEN <<Digits[n + 1]>>
    ELSE Decimal(n \div 10) \o <<Digits[(n % 10) + 1]>>

\* while (opt = gen()) { os << operation_props.delimiter << opt.value(); }
RECURSIVE PrintLoop(_, _, _, _)
PrintLoop(gen, os, delimiter, E) ==
    LET r == Pull(gen, E)
    IN  IF r.st # "ok" THEN Stopped(r.st)
        ELSE IF has_value(r.opt)
        THEN PrintLoop(r.gen, os \o delimiter \o Decimal(value(r.opt)), delimiter, E)
        ELSE ReturnedValue(os, r.gen, NoProps)

\* operator|(print_to &&); the value is what was written to the ostream.
print_to(stream, delimiter, E) ==
    LET r == Pull(GenOf(stream), E)
    IN  IF r.st # "ok" THEN Stopped(r.st)
        ELSE IF has_value(r.opt)
        THEN PrintLoop(r.gen, Decimal(value(r.opt)), delimiter, E)
        ELSE ReturnedValue(<<>>, r.gen, NoProps)

\* while (i <= operation_props.n && (opt = gen())) ++i;
RECURSIVE NthLoop(_, _, _, _, _)
NthLoop(gen, opt, i, n, E) ==
    IF i <= n
    THEN LET r == Pull(gen, E)
         IN  IF r.st = "ok" /\ has_value(r.opt)
             THEN NthLoop(r.gen, r.opt, i + 1, n, E)
             ELSE [gen |-> r.gen, opt |-> r.opt, i |-> i, st |-> r.st]
    ELSE [gen |-> gen, opt |-> opt, i |-> i, st |-> "ok"]

\* nth with i <= n + 1 for i <= n: one pull more.
nthOneTooMany(stream, n, E) ==
    LET l == NthLoop(GenOf(stream), nullopt, 0, n + 1, E)
    IN  IF l.st # "ok" THEN Stopped(l.st)
        ELSE IF l.i <= n + 1 THEN Threw(l.gen, NoProps)
        ELSE ReturnedValue(value(l.opt), l.gen, NoProps)

\* operator|(nth &&).
nth(stream, n, E) ==
    LET l == NthLoop(GenOf(stream), nullopt, 0, n, E)
    IN  IF l.st # "ok" THEN Stopped(l.st)
        ELSE IF l.i <= n THEN Threw(l.gen, NoProps)
        ELSE ReturnedValue(value(l.opt), l.gen, NoProps)

\* reduce<U, T>::identity and ::accumulator of the two tests:
\* "cast": static_cast<U>(val), "times10": 10.0 * val; "plus2x": res + 2.0 * val.
Identities == {"cast", "times10"}
Identity(identity, val) == IF identity = "cast" THEN val ELSE 10 * val
Accumulator(res, val) == res + 2 * val

\* reduce<U, T>(accumulator) and reduce<U, T>(identity, accumulator).
Reduce(identity) ==
    [identity |-> Functor(identity), accumulator |-> Functor("plus2x")]

\* while (opt = gen()) { result = operation_props.accumulator(result, opt.value()); }
RECURSIVE ReduceLoop(_, _, _, _)
ReduceLoop(gen, result, operation_props, E) ==
    LET r == Pull(gen, E)
    IN  IF r.st # "ok" THEN Stopped(r.st)
        ELSE IF has_value(r.opt)
        THEN ReduceLoop(r.gen, Accumulator(result, value(r.opt)),
                        [operation_props EXCEPT !.accumulator = Called(@)], E)
        ELSE ReturnedValue(result, r.gen, operation_props)

\* operator|(reduce<U, value_type> &&).
reduce(stream, operation_props, E) ==
    LET r == Pull(GenOf(stream), E)
    IN  IF r.st # "ok" THEN Stopped(r.st)
        ELSE IF ~has_value(r.opt) THEN Threw(r.gen, operation_props)
        ELSE ReduceLoop(r.gen, Identity(operation_props.identity.fn, value(r.opt)),
                        [operation_props EXCEPT !.identity = Called(@)], E)

\* while (opt = gen()) { vec.push_back(opt.value()); }
RECURSIVE ToVectorLoop(_, _, _)
ToVectorLoop(gen, vec, E) ==
    LET r == Pull(gen, E)
    IN  IF r.st # "ok" THEN Stopped(r.st)
        ELSE IF has_value(r.opt)
        THEN ToVectorLoop(r.gen, Append(vec, value(r.opt)), E)
        ELSE ReturnedValue(vec, r.gen, NoProps)

\* operator|(to_vector &&).
to_vector(stream, E) == ToVectorLoop(GenOf(stream), <<>>, E)

\* while (opt = gen()) { stream_sum += opt.value(); }
RECURSIVE SumLoop(_, _, _)
SumLoop(gen, stream_sum, E) ==
    LET r == Pull(gen, E)
    IN  IF r.st # "ok" THEN Stopped(r.st)
        ELSE IF has_value(r.opt)
        THEN SumLoop(r.gen, stream_sum + value(r.opt), E)
        ELSE ReturnedValue(stream_sum, r.gen, NoProps)

\* operator|(sum &&).
sum(stream, E) ==
    LET r == Pull(GenOf(stream), E)
    IN  IF r.st # "ok" THEN Stopped(r.st)
        ELSE IF ~has_value(r.opt) THEN Threw(r.gen, NoProps)
        ELSE SumLoop(r.gen, value(r.opt), E)

(***************************************************************************)
(* The client program: it constructs one stream from its input, applies    *)
(* combinators to it (each result takes the place of s), moves it, and     *)
(* runs terminal operations on it.  It may also take the generator of s    *)
(* as a producer of its own, pull it and copy it.                          *)
(*   s       the stream, NoStream before it is constructed                 *)
(*   input   what the stream is constructed from: a collection or a        *)
(*           callable                                                      *)
(*   ops     the combinators and moves that led from the constructed       *)
(*           stream to s, oldest first                                     *)
(*   res     the latest terminal operation on s and how it ended           *)
(*   before  how to_vector ended on the stream s was made from, when it    *)
(*           ran just before s was made                                    *)
(*   prod    the producer: p is the generator being pulled, fresh is the   *)
(*           generator as it was constructed, q is the copy made of p      *)
(*   heap    the vectors owned by the streams s was copied from that are   *)
(*           still alive                                                   *)
(***************************************************************************)
VARIABLES s, input, ops, res, before, prod, heap

vars == <<s, input, ops, res, before, prod, heap>>

NoStream == [generator_ |-> NoGen, Tag |-> "None", depth |-> 0]
NoRes ==
    [op |-> "none", n |-> 0, f |-> "", status |-> "none", value |-> <<>>,
     gen |-> NoGen, props |-> NoProps]
NoProd ==
    [state |-> "none", p |-> NoGen, fresh |-> NoGen, q |-> NoGen,
     ended |-> FALSE]

Collections == SeqsUpTo(Values, MaxLen)
Amounts == 0..MaxArg
\* print_to's delimiter: the default " " and the "_" of the test.
Delimiters == {" ", "_"}

Inputs ==
    {[C |-> c, fn |-> "none"] : c \in Collections}
        \cup {[C |-> <<>>, fn |-> fn] : fn \in Callables}

Init ==
    /\ s = NoStream
    /\ input \in Inputs
    /\ ops = <<>>
    /\ res = NoRes
    /\ before = NoRes
    /\ prod = NoProd
    /\ heap = {}

Built == s # NoStream

\* The process is alive: no terminal operation crashed it or hangs.
Running == res.status \notin {"crashed", "hangs"}

\* A new stream object takes the place of s.
Becomes(stream, op, n, f) ==
    /\ s' = stream
    /\ ops' = Append(ops, [op |-> op, n |-> n, f |-> f])
    /\ before' = IF res.op = "to_vector" THEN res ELSE NoRes
    /\ res' = NoRes
    /\ UNCHANGED <<input, prod, heap>>

Constructed(stream) ==
    /\ ~Built
    /\ s' = stream
    /\ UNCHANGED <<input, ops, res, before, prod, heap>>

\* Stream s([](){ ... });
ConstructFromCallable ==
    /\ input.fn # "none"
    /\ Constructed(StreamOfCallable(input.fn))

\* Stream s(container);
ConstructFromContainerCopy ==
    /\ input.fn = "none"
    /\ Constructed(StreamOfContainer(input.C))

\* Stream s(std::move(container));
ConstructFromContainerMove ==
    /\ input.fn = "none"
    /\ Constructed(StreamOfContainer(input.C))

\* Stream s(container.begin(), container.end());
ConstructFromRange ==
    /\ input.fn = "none"
    /\ Constructed(StreamOfRange(input.C, 1, Len(input.C) + 1))

\* Stream s{c1, ..., cn};
ConstructFromInitializerList ==
    /\ input.fn = "none"
    /\ Constructed(StreamOfInitializerList(input.C))

\* Stream s(c1, ..., cn);
ConstructFromPack ==
    /\ input.fn = "none"
    /\ Len(input.C) >= 1
    /\ Constructed(StreamOfPack(input.C))

CanApply == Built /\ Running /\ prod.state = "none" /\ Len(ops) < MaxChain

\* s | skip(amount)
ApplySkip ==
    /\ CanApply
    /\ \E amount \in Amounts : Becomes(Skip(s, amount), "skip", amount, "")

\* s | get(amount)
ApplyGet ==
    /\ CanApply
    /\ \E amount \in Amounts : Becomes(Get(s, amount), "get", amount, "")

\* s | filter(predicate), a predicate on int
ApplyFilter ==
    /\ CanApply
    /\ s.depth = 0
    /\ \E predicate \in Predicates : Becomes(Filter(s, Functor(predicate)), "filter", 0, predicate)

\* s | group(group_size)
ApplyGroup ==
    /\ CanApply
    /\ \E group_size \in Amounts : Becomes(Group(s, group_size), "group", group_size, "")

\* s | map(transform), a transform of int
ApplyMap ==
    /\ CanApply
    /\ s.depth = 0
    /\ \E transform \in Transforms : Becomes(Map(s, Functor(transform)), "map", 0, transform)

\* Stream s2(std::move(s));
MoveConstruct ==
    /\ CanApply
    /\ Becomes(StreamMove(s), "move", 0, "")

\* Stream s2(s); s2 takes the place of s, and s stays alive.
CopyConstruct ==
    /\ CanApply
    /\ s' = StreamCopy(s, FreshId(Vectors(s.generator_) \cup heap
                                       \cup Pointees(s.generator_)))
    /\ ops' = Append(ops, [op |-> "copy", n |-> 0, f |-> ""])
    /\ before' = IF res.op = "to_vector" THEN res ELSE NoRes
    /\ res' = NoRes
    /\ heap' = heap \cup Vectors(s.generator_)
    /\ UNCHANGED <<input, prod>>

\* The streams s was copied from go out of scope: ~Stream().
DestroyOriginal ==
    /\ Built /\ Running /\ prod.state = "none"
    /\ heap # {}
    /\ heap' = {}
    /\ UNCHANGED <<s, input, ops, res, before, prod>>

\* The memory s and the producer are pulled in: the vectors alive, and junk.
Env(junk) ==
    [live |-> Vectors(s.generator_) \cup heap \cup
                  (IF prod.state = "none" THEN {} ELSE Vectors(prod.p)),
     junk |-> junk]

\* What the cells outside the buffers may hold while s is pulled: only a
\* PackGenerator reads through iterators, so nothing else depends on it.
Junk == IF SourceOf(s.generator_).kind = "Pack" THEN JunkSeqs ELSE {<<>>}

CanRun == Built /\ Running /\ prod.state = "none"

Ends(op, n, f, outcome) ==
    /\ res' = [op |-> op, n |-> n, f |-> f,
               status |-> outcome.status, value |-> outcome.value,
               gen |-> outcome.gen, props |-> outcome.props]
    /\ UNCHANGED <<s, input, ops, before, prod, heap>>

\* s | print_to(os, delimiter): static_assert(Tag == StreamTag::Finite)
RunPrintTo ==
    /\ CanRun /\ is_finite(s) /\ s.depth = 0
    /\ \E delimiter \in Delimiters, junk \in Junk :
           Ends("print_to", 0, delimiter, print_to(s, <<delimiter>>, Env(junk)))

\* s | nth(n)
RunNth ==
    /\ CanRun
    /\ \E n \in Amounts, junk \in Junk : Ends("nth", n, "", nth(s, n, Env(junk)))

\* s | reduce<U, T>(identity, accumulator): static_assert(Tag == StreamTag::Finite)
RunReduce ==
    /\ CanRun /\ is_finite(s) /\ s.depth = 0
    /\ \E identity \in Identities, junk \in Junk :
           Ends("reduce", 0, identity, reduce(s, Reduce(identity), Env(junk)))

\* s | to_vector(): static_assert(Tag == StreamTag::Finite)
RunToVector ==
    /\ CanRun /\ is_finite(s)
    /\ \E junk \in Junk : Ends("to_vector", 0, "", to_vector(s, Env(junk)))

\* s | sum(): static_assert(Tag == StreamTag::Finite)
RunSum ==
    /\ CanRun /\ is_finite(s) /\ s.depth = 0
    /\ \E junk \in Junk : Ends("sum", 0, "", sum(s, Env(junk)))

\* The client takes the generator of s, as constructed, for a producer.
TakeProducer ==
    /\ Built /\ prod.state = "none" /\ res = NoRes
    /\ prod' = [NoProd EXCEPT !.state = "taken", !.p = s.generator_,
                              !.fresh = s.generator_]
    /\ UNCHANGED <<s, input, ops, res, before, heap>>

\* The calls the callables of a generator have counted.
RECURSIVE Counted(_)
Counted(g) ==
    CASE g.kind = "Infinite" -> g.value_generator_.calls
      [] IsSource(g) -> 0
      [] g.kind = "Filter" -> g.predicate_.calls + Counted(g.parent_gen_)
      [] g.kind = "Map" -> g.transform_.calls + Counted(g.parent_gen_)
      [] OTHER -> Counted(g.parent_gen_)

\* The calls after which the client stops pulling its producer.
MaxCalls == MaxChain * MaxLen

\* p(): one pull of the producer that returns.
PullProducer ==
    /\ prod.state = "taken"
    /\ Counted(prod.p) <= MaxCalls
    /\ \E junk \in Junk :
           LET r == Pull(prod.p, Env(junk))
           IN  /\ r.st = "ok"
               /\ prod' = [prod EXCEPT !.p = r.gen,
                                       !.ended = ~has_value(r.opt)]
    /\ UNCHANGED <<s, input, ops, res, before, heap>>

\* Generator q(p): the copy constructor.
CopyProducer ==
    /\ prod.state = "taken"
    /\ prod' = [prod EXCEPT !.state = "copied",
                            !.q = CopyGen(prod.p, FreshId(Env(<<>>).live))]
    /\ UNCHANGED <<s, input, ops, res, before, heap>>

Construct ==
    \/ ConstructFromCallable
    \/ ConstructFromContainerCopy
    \/ ConstructFromContainerMove
    \/ ConstructFromRange
    \/ ConstructFromInitializerList
    \/ ConstructFromPack

Combine ==
    \/ ApplySkip
    \/ ApplyGet
    \/ ApplyFilter
    \/ ApplyGroup
    \/ ApplyMap

Terminal ==
    \/ RunPrintTo
    \/ RunNth
    \/ RunReduce
    \/ RunToVector
    \/ RunSum

\* The client of the Stream interface.
Next ==
    \/ Construct
    \/ Combine
    \/ MoveConstruct
    \/ CopyConstruct
    \/ DestroyOriginal
    \/ Terminal

Spec == Init /\ [][Next]_vars

\* A client that constructs a stream, copies it, lets the originals go and
\* runs terminal operations on the copy.
NextCopy ==
    \/ Construct
    \/ CopyConstruct
    \/ DestroyOriginal
    \/ Terminal

SpecCopy == Init /\ [][NextCopy]_vars

\* A client that constructs a stream and runs terminal operations on it.
NextFresh ==
    \/ Construct
    \/ Terminal

SpecFresh == Init /\ [][NextFresh]_vars

\* A client that only builds streams.
NextTags ==
    \/ Construct
    \/ Combine
    \/ MoveConstruct

SpecTags == Init /\ [][NextTags]_vars

\* A client of a callable: it builds streams on it and collects them.
InitInfinite == Init /\ input.fn # "none"

NextInfinite ==
    \/ ConstructFromCallable
    \/ Combine
    \/ RunToVector

SpecInfinite == InitInfinite /\ [][NextInfinite]_vars

\* A client of the generators: it builds a stream, then pulls and copies
\* its generator.
NextProducer ==
    \/ Construct
    \/ Combine
    \/ MoveConstruct
    \/ TakeProducer
    \/ PullProducer
    \/ CopyProducer

SpecProducer == Init /\ [][NextProducer]_vars

\* A client that builds a stream and pulls the generator it holds.
NextPulls ==
    \/ Construct
    \/ Combine
    \/ TakeProducer
    \/ PullProducer

SpecPulls == Init /\ [][NextPulls]_vars

\* A client that builds a stream and asks each stream it builds for one
\* element by index.
AskNth == res = NoRes /\ RunNth

NextNth ==
    \/ Construct
    \/ Combine
    \/ AskNth

SpecNth == Init /\ [][NextNth]_vars

(***************************************************************************)
(* The claims.                                                             *)
(***************************************************************************)
LastOp == ops[Len(ops)]
MadeBy(op) == Built /\ Len(ops) >= 1 /\ LastOp.op = op

\* to_vector returned on the stream s was made from, just before s was made.
CollectedBefore == before.op = "to_vector" /\ before.status = "returned"

Drop(q, k) == SubSeq(q, k + 1, Len(q))

RECURSIVE Flatten(_)
Flatten(groups) ==
    IF groups = <<>> THEN <<>> ELSE Head(groups) \o Flatten(Tail(groups))

CeilDiv(n, g) == (n + g - 1) \div g

\* C1: on a Finite stream, a terminal operation run again right after a run
\* of the same operation with the same arguments ends as that run did.
C1_RepeatedRunAgrees ==
    [][(/\ Built /\ is_finite(s) /\ s' = s
        /\ res.op # "none"
        /\ res'.op = res.op /\ res'.n = res.n /\ res'.f = res.f)
       => (res'.status = res.status /\ res'.value = res.value)]_vars

\* C2: s | skip(k) | to_vector() returns the elements s | to_vector()
\* returned, without the first k of them.
C2_SkipDropsFirst ==
    (MadeBy("skip") /\ CollectedBefore /\ res.op = "to_vector")
        => /\ res.status = "returned"
           /\ res.value = <<Drop(before.value[1], LastOp.n)>>

\* The values an Infinite stream keeps yielding: those of its callable ...
CallableValues(fn) == IF fn = "one" THEN {1} ELSE {1, 2}

\* ... as they are after the first j combinators.
RECURSIVE Reaching(_)
Reaching(j) ==
    IF j = 0 THEN CallableValues(input.fn)
    ELSE LET below == Reaching(j - 1)
         IN  CASE ops[j].op = "filter" -> {v \in below : Test(ops[j].f, v)}
               [] ops[j].op = "map" -> {Apply(ops[j].f, v) : v \in below}
               [] OTHER -> below

\* Every filter of the chain accepts a value that keeps reaching it.
FiltersProductive ==
    \A j \in 1..Len(ops) :
        ops[j].op = "filter" => \E v \in Reaching(j - 1) : Test(ops[j].f, v)

\* s is t | get(k) for an Infinite-tagged t: a callable under skip, filter,
\* map and group.
GetOnInfinite ==
    /\ MadeBy("get")
    /\ input.fn # "none"
    /\ \A j \in 1..(Len(ops) - 1) : ops[j].op \in {"skip", "filter", "map", "group"}

C4_GroupPartitions ==
    (MadeBy("group") /\ LastOp.n >= 1 /\ CollectedBefore /\ res.op = "to_vector")
        => /\ res.status = "returned"
           /\ LET groups == res.value[1]
                  g == LastOp.n
              IN  /\ Len(groups) = CeilDiv(Len(before.value[1]), g)
                  /\ \A i \in 1..(Len(groups) - 1) : Len(groups[i]) = g
                  /\ \A i \in 1..Len(groups) : Len(groups[i]) >= 1
                  /\ Flatten(groups) = before.value[1]

\* What the first n pulls of a generator return.
RECURSIVE Yields(_, _, _)
Yields(g, n, E) ==
    IF n = 0 THEN <<>>
    ELSE LET r == Pull(g, E)
         IN  IF r.st # "ok" THEN <<[st |-> r.st, opt |-> nullopt]>>
             ELSE <<[st |-> r.st, opt |-> r.opt]>> \o Yields(r.gen, n - 1, E)

\* Pulls enough to drain every finite producer of the model.
PullsCompared == MaxLen + MaxArg + 1

\* C5: a copy of a producer over a collection, whatever pulls the producer
\* has seen, yields what the producer yields when freshly constructed.
C5_CopyRestarts ==
    (prod.state = "copied" /\ SourceOf(prod.p).kind # "Infinite")
        => \A junk \in Junk :
               Yields(prod.q, PullsCompared, Env(junk))
                   = Yields(prod.fresh, PullsCompared, Env(junk))

\* C6: a stream freshly constructed from the collection C collects to C.
C6_FreshCollectsInput ==
    (Built /\ ops = <<>> /\ res.op = "to_vector")
        => /\ res.status = "returned"
           /\ res.value = <<input.C>>

C6_Witness ==
    /\ Built /\ ops = <<>> /\ SourceOf(s.generator_).kind = "Pack"
    /\ Len(input.C) >= 2 /\ input.C[1] # input.C[2]
    /\ res.op = "to_vector" /\ res.value = <<input.C>>

\* The next pull of the generator reads inside the vector the generator owns.
PullsOwnStorage(g) ==
    LET src == SourceOf(g)
    IN  src.kind = "Pack"
            => src.current_ = src.end_ \/ InBounds(src.current_, src.container_)

\* C7: Stream s2(std::move(s1)) collects to what s1 collected to before the
\* move, and its pulls stay inside its own storage.
C7_MovePreserves ==
    (MadeBy("move") /\ is_finite(s))
        => /\ PullsOwnStorage(s.generator_)
           /\ (CollectedBefore /\ res.op = "to_vector")
                  => (res.status = "returned" /\ res.value = before.value)

\* C8: group(0) is rejected: no stream made by group(0) collects to groups.
C8_GroupZeroRejected ==
    ~(/\ MadeBy("group") /\ LastOp.n = 0
      /\ res.op = "to_vector" /\ res.status = "returned" /\ res.value # <<<<>>>>)

\* C9: every draining terminal operation on a Finite-tagged stream ends: it
\* returns or throws.
C9_FiniteDrains ==
    (Built /\ is_finite(s) /\ res.op \in {"to_vector", "sum", "reduce", "print_to"})
        => res.status \in {"returned", "threw"}

\* C10: a stream is Finite exactly when its source is a collection or a get
\* is among the combinators applied.
C10_TagFollowsGet ==
    Built => (is_finite(s) <=>
                 (input.fn = "none" \/ \E j \in 1..Len(ops) : ops[j].op = "get"))

C10_Witness ==
    /\ Built /\ input.fn # "none" /\ Len(ops) = 2
    /\ ops[1].op = "get" /\ ops[2].op = "group" /\ is_finite(s)

\* A terminal operation `op` runs on s right after to_vector returned on s.
RunsAfterCollect(op) ==
    /\ Built /\ is_finite(s) /\ s' = s
    /\ res.op = "to_vector" /\ res.status = "returned"
    /\ res'.op = op

\* C11: reduce and sum on a Finite stream that just collected to nothing
\* throw, return no value and call neither identity nor accumulator; on one
\* that just collected to at least one element they do not throw.
C11_FoldThrowsOnEmpty ==
    [][(RunsAfterCollect("reduce") \/ RunsAfterCollect("sum"))
       => IF res.value = <<<<>>>>
          THEN /\ res'.status = "threw" /\ res'.value = <<>>
               /\ res'.props.identity.calls = 0
               /\ res'.props.accumulator.calls = 0
          ELSE res'.status # "threw"]_vars

\* C12: nth(n) on a Finite stream that just collected to e0..e(m-1) returns
\* e(n) when m >= n + 1 and throws, returning no value, when m < n + 1.
C12_NthIsElementN ==
    [][RunsAfterCollect("nth")
       => IF Len(res.value[1]) >= res'.n + 1
          THEN res'.status = "returned" /\ res'.value = <<res.value[1][res'.n + 1]>>
          ELSE res'.status = "threw" /\ res'.value = <<>>]_vars

\* acc(...acc(acc(r, e1), e2)..., ek) for the elements e1..ek of rest.
RECURSIVE FoldLeft(_, _)
FoldLeft(r, rest) ==
    IF rest = <<>> THEN r ELSE FoldLeft(Accumulator(r, Head(rest)), Tail(rest))

\* C13: reduce on a Finite stream that just collected to e0..e(m-1), m >= 1,
\* returns the left fold seeded with identity(e0), having called identity
\* once and accumulator m - 1 times.
C13_ReduceFoldsLeft ==
    [][(RunsAfterCollect("reduce") /\ res.value # <<<<>>>>)
       => /\ res'.status = "returned"
          /\ res'.value = <<FoldLeft(Identity(res'.f, Head(res.value[1])),
                                     Tail(res.value[1]))>>
          /\ res'.props.identity.calls = 1
          /\ res'.props.accumulator.calls = Len(res.value[1]) - 1]_vars

\* C14: a copy of a Finite stream reads only the storage it owns, and
\* collects to what the original collected to, whether or not the original
\* is still alive.
C14_CopyOwnsItsStorage ==
    (MadeBy("copy") /\ is_finite(s))
        => /\ PullsOwnStorage(s.generator_)
           /\ (CollectedBefore /\ res.op = "to_vector")
                  => (res.status = "returned" /\ res.value = before.value)

Take(q, k) == SubSeq(q, 1, IF k < Len(q) THEN k ELSE Len(q))

\* C15: s | get(k) | to_vector() returns the first min(n, k) of the n
\* elements s | to_vector() returned.
C15_GetTakesFirst ==
    (MadeBy("get") /\ CollectedBefore /\ res.op = "to_vector")
        => /\ res.status = "returned"
           /\ res.value = <<Take(before.value[1], LastOp.n)>>

\* The elements of q that satisfy the predicate, in their order.
RECURSIVE Satisfying(_, _)
Satisfying(q, predicate) ==
    IF q = <<>> THEN <<>>
    ELSE (IF Test(predicate, Head(q)) THEN <<Head(q)>> ELSE <<>>)
             \o Satisfying(Tail(q), predicate)

\* C16: s | filter(p) | to_vector() returns the elements s | to_vector()
\* returned that satisfy p, in their order, after one call of p for each
\* element of s.
C16_FilterKeepsSatisfying ==
    (MadeBy("filter") /\ is_finite(s) /\ CollectedBefore /\ res.op = "to_vector")
        => /\ res.status = "returned"
           /\ res.value = <<Satisfying(before.value[1], LastOp.f)>>
           /\ res.gen.predicate_.calls = Len(before.value[1])

\* C17: s | map(f) | to_vector() returns f(e0)..f(e(m-1)) for the elements
\* e0..e(m-1) s | to_vector() returned, after m calls of f.
C17_MapAppliesToEach ==
    (MadeBy("map") /\ is_finite(s) /\ CollectedBefore /\ res.op = "to_vector")
        => /\ res.status = "returned"
           /\ res.value = <<[i \in 1..Len(before.value[1])
                                |-> Apply(LastOp.f, before.value[1][i])]>>
           /\ res.gen.transform_.calls = Len(before.value[1])

\* What print_to writes for the elements q joined by the delimiter.
RECURSIVE Joined(_, _)
Joined(q, delimiter) ==
    IF q = <<>> THEN <<>>
    ELSE IF Len(q) = 1 THEN Decimal(q[1])
    ELSE Decimal(Head(q)) \o <<delimiter>> \o Joined(Tail(q), delimiter)

\* C18: print_to on a Finite stream that just collected to e0..e(m-1) writes
\* the elements in order with the delimiter between neighbours only, and
\* nothing for m = 0.
C18_PrintJoins ==
    [][RunsAfterCollect("print_to")
       => /\ res'.status = "returned"
          /\ res'.value = <<Joined(res.value[1], res'.f)>>]_vars

\* e1 + e2 + ... + ek added to r from the left.
RECURSIVE AddLeft(_, _)
AddLeft(r, rest) ==
    IF rest = <<>> THEN r ELSE AddLeft(r + Head(rest), Tail(rest))

\* C19: sum on a Finite stream that just collected to e0..e(m-1), m >= 1,
\* returns the left fold of e1..e(m-1) by + seeded with e0.
C19_SumFoldsByAddition ==
    [][(RunsAfterCollect("sum") /\ res.value # <<<<>>>>)
       => /\ res'.status = "returned"
          /\ res'.value = <<AddLeft(Head(res.value[1]), Tail(res.value[1]))>>]_vars

\* A generator as its constructor leaves it: the cursor at the first element,
\* the flag of Skip false, the counter of Get 0, no call made to a callable.
RECURSIVE InitialState(_)
InitialState(g) ==
    CASE g.kind = "Infinite" ->
            g.value_generator_.n = 0 /\ g.value_generator_.calls = 0
      [] g.kind = "Pack" -> g.current_.base = Len(g.container_.data)
      [] g.kind = "Container" -> g.current_ = 1
      [] g.kind = "Skip" -> ~g.skipped_ /\ InitialState(g.parent_gen_)
      [] g.kind = "Get" -> g.amount_got_ = 0 /\ InitialState(g.parent_gen_)
      [] g.kind = "Filter" -> g.predicate_.calls = 0 /\ InitialState(g.parent_gen_)
      [] g.kind = "Map" -> g.transform_.calls = 0 /\ InitialState(g.parent_gen_)
      [] OTHER -> InitialState(g.parent_gen_)

\* C20: whatever combinators and terminal operations have run, the
\* generator stored in the stream is in its initial state.
C20_StoredGeneratorUntouched ==
    Built => InitialState(s.generator_)


\* C21: end-of-sequence is sticky.  A producer whose last pull returned
\* end-of-sequence returns end-of-sequence on the next pull too, whatever the
\* memory around it holds; the state after that pull is again one whose last
\* pull returned end-of-sequence, so every later pull does.  This covers a Skip
\* whose parent ran out during the skip phase.
C21_EndIsSticky ==
    (prod.state = "taken" /\ prod.ended)
       => \A junk \in Junk :
             LET r == Pull(prod.p, Env(junk))
             IN  r.st = "ok" /\ r.opt = nullopt

\* A Skip over a container shorter than the amount to skip has reported the end.
C21_Witness ==
    /\ prod.state = "taken" /\ prod.ended
    /\ prod.p.kind = "Skip" /\ prod.p.skipped_
    /\ prod.p.parent_gen_.kind = "Container"
    /\ Len(prod.p.parent_gen_.container_) >= 1
    /\ prod.p.amount_to_skip_ > Len(prod.p.parent_gen_.container_)


\* Up to n pulls of g, one after the other, stopping after the first that
\* does not return a value: the generator left, what the last pull returned
\* and the number of pulls made.
RECURSIVE PulledTimes(_, _, _)
PulledTimes(g, n, E) ==
    IF n = 0 THEN [gen |-> g, opt |-> nullopt, st |-> "ok", pulls |-> 0]
    ELSE LET r == Pull(g, E)
         IN  IF r.st # "ok" \/ ~has_value(r.opt) \/ n = 1
             THEN [gen |-> r.gen, opt |-> r.opt, st |-> r.st, pulls |-> 1]
             ELSE [PulledTimes(r.gen, n - 1, E) EXCEPT !.pulls = @ + 1]

\* No Skip of the generator has done its skip phase.
RECURSIVE NothingSkipped(_)
NothingSkipped(g) ==
    CASE IsSource(g) -> TRUE
      [] g.kind = "Skip" -> ~g.skipped_ /\ NothingSkipped(g.parent_gen_)
      [] OTHER -> NothingSkipped(g.parent_gen_)

\* The step is a pull of the producer that changed it.
ProducerPulled ==
    prod.state = "taken" /\ prod'.state = "taken" /\ prod' # prod

\* C22: skip is lazy and skips once per producer.  (1) s | skip(k) leaves in
\* the new stream a Skip that has not skipped, over a moved copy of the
\* generator of s: nothing was pulled.  (2) The first pull of a Skip producer
\* makes up to k + 1 pulls of its parent, stopping at the end of the parent,
\* and returns what the last of them returned if k values were discarded.
\* (3) Every later pull makes exactly one pull of the parent and returns its
\* result.  (4) Whatever a producer has done, no Skip of the generator stored
\* in the stream has skipped, so the next duplicate skips again.
C22_SkipIsLazyAndOnce ==
    [][/\ (ops' # ops /\ ops'[Len(ops')].op = "skip")
           => /\ s'.generator_.kind = "Skip" /\ ~s'.generator_.skipped_
              /\ s'.generator_.amount_to_skip_ = ops'[Len(ops')].n
              /\ s'.generator_.parent_gen_
                     = MoveGen(CopyGen(s.generator_, FreshId(Vectors(s.generator_))))
       /\ (ProducerPulled /\ prod.p.kind = "Skip" /\ ~prod.p.skipped_)
           => \E junk \in Junk :
                 LET k == prod.p.amount_to_skip_
                     t == PulledTimes(prod.p.parent_gen_, k + 1, Env(junk))
                 IN  /\ t.st = "ok" /\ t.pulls <= k + 1
                     /\ prod'.p = [prod.p EXCEPT !.parent_gen_ = t.gen,
                                                  !.skipped_ = TRUE]
                     /\ prod'.ended = ~(t.pulls = k + 1 /\ has_value(t.opt))
       /\ (ProducerPulled /\ prod.p.kind = "Skip" /\ prod.p.skipped_)
           => \E junk \in Junk :
                 LET r == Pull(prod.p.parent_gen_, Env(junk))
                 IN  /\ r.st = "ok"
                     /\ prod'.p = [prod.p EXCEPT !.parent_gen_ = r.gen]
                     /\ prod'.ended = ~has_value(r.opt)
       /\ Built' => NothingSkipped(s'.generator_)]_vars

\* A producer s | skip(1) over a container of three elements was pulled
\* twice: it skipped one element and returned the two after it, and the
\* Skip stored in the stream has not skipped.
C22_Witness ==
    /\ prod.state = "taken" /\ prod.p.kind = "Skip" /\ prod.p.skipped_
    /\ prod.p.amount_to_skip_ = 1
    /\ prod.p.parent_gen_.kind = "Container"
    /\ prod.p.parent_gen_.current_ = 4
    /\ ~prod.ended
    /\ ~s.generator_.skipped_


\* The counter of every Get of the generator is between 0 and its amount.
RECURSIVE CountersInRange(_)
CountersInRange(g) ==
    CASE IsSource(g) -> TRUE
      [] g.kind = "Get" ->
            /\ 0 <= g.amount_got_ /\ g.amount_got_ <= g.amount_to_get_
            /\ CountersInRange(g.parent_gen_)
      [] OTHER -> CountersInRange(g.parent_gen_)

\* C23: a Get producer pulls its parent at most amount_to_get_ times.  The
\* counter of every Get stays between 0 and the amount; a pull of a Get
\* producer whose counter is below the amount adds one to the counter and
\* makes exactly one pull of the parent, whatever that pull returns, so the
\* counter is the number of parent pulls made; a pull of one whose counter
\* has reached the amount returns end-of-sequence and leaves the producer,
\* its parent included, as it was.
C23_GetPullsAtMostK ==
    /\ Built => CountersInRange(s.generator_)
    /\ prod.state = "taken"
          => /\ CountersInRange(prod.p)
             /\ prod.p.kind = "Get"
                   => \A junk \in Junk :
                         LET r == Pull(prod.p, Env(junk))
                             pr == Pull(prod.p.parent_gen_, Env(junk))
                         IN  IF prod.p.amount_got_ = prod.p.amount_to_get_
                             THEN r = Returned(prod.p, nullopt)
                             ELSE /\ r.gen.amount_got_ = prod.p.amount_got_ + 1
                                  /\ r.gen.parent_gen_ = pr.gen
                                  /\ r.opt = pr.opt /\ r.st = pr.st

\* A Get of amount 2 over an empty container was pulled twice: both pulls
\* went to the parent and met its end, and the counter has reached 2.
C23_Witness ==
    /\ prod.state = "taken" /\ prod.p.kind = "Get"
    /\ prod.p.amount_to_get_ = 2 /\ prod.p.amount_got_ = 2
    /\ prod.p.parent_gen_.kind = "Container"
    /\ prod.p.parent_gen_.container_ = <<>>
    /\ prod.ended


\* What the j-th call of a callable returns, j >= 1.
NthCall(fn, j) == IF fn = "one" THEN 1 ELSE ((j - 1) % 2) + 1

\* C24: nth(n) makes at most n + 1 pulls of its duplicate of the generator.
\* The duplicate is left as up to n + 1 successive pulls leave it, stopping
\* after the first that returns no value: nth returns the value of pull
\* n + 1 when all n + 1 returned one, and throws otherwise.  On a stream
\* built directly from a callable nth(n) returns, its copy of the callable
\* has been called n + 1 times, and the value is that of call n + 1.
C24_NthPullsNPlusOne ==
    [][(res'.op = "nth" /\ res' # res)
          => /\ \E junk \in Junk :
                    LET t == PulledTimes(GenOf(s), res'.n + 1, Env(junk))
                    IN  /\ t.pulls <= res'.n + 1
                        /\ IF t.st # "ok" THEN res' = [res' EXCEPT !.status = Stopped(t.st).status]
                           ELSE /\ res'.gen = t.gen
                                /\ IF t.pulls = res'.n + 1 /\ has_value(t.opt)
                                   THEN /\ res'.status = "returned"
                                        /\ res'.value = <<value(t.opt)>>
                                   ELSE res'.status = "threw"
             /\ (ops = <<>> /\ input.fn # "none")
                   => /\ res'.status = "returned"
                      /\ res'.gen.value_generator_.calls = res'.n + 1
                      /\ res'.value = <<NthCall(input.fn, res'.n + 1)>>]_vars

\* nth(2) returned 1 on the stream built from the callable "cycle", after
\* three calls of its copy of the callable.
C24_Witness ==
    /\ Built /\ ops = <<>> /\ input.fn = "cycle"
    /\ res.op = "nth" /\ res.n = 2 /\ res.status = "returned"
    /\ res.value = <<1>>
    /\ res.gen.value_generator_.calls = 3


\* The memory a stream made from s is pulled in while s is alive.
EnvOf(stream, junk) ==
    [live |-> Vectors(stream.generator_) \cup Env(junk).live, junk |-> junk]

\* C25: get and skip partition a finite stream.  After s | to_vector()
\* returned q on a Finite stream s, for every k, s | get(k) | to_vector()
\* and s | skip(k) | to_vector() return sequences whose concatenation is q,
\* and s | to_vector() then returns q again.
C25_GetAndSkipPartition ==
    (Built /\ is_finite(s) /\ res.op = "to_vector" /\ res.status = "returned")
       => \A k \in Amounts, junk \in Junk :
             LET taken == to_vector(Get(s, k), EnvOf(Get(s, k), junk))
                 rest == to_vector(Skip(s, k), EnvOf(Skip(s, k), junk))
                 again == to_vector(s, Env(junk))
             IN  /\ taken.status = "returned" /\ rest.status = "returned"
                 /\ taken.value[1] \o rest.value[1] = res.value[1]
                 /\ again.status = "returned" /\ again.value = res.value

====
